---------------------------- MODULE Spec2Model ----------------------------
(***************************************************************************)
(* Othello rules engine (OthelloGame), the MCTS player (main.py) and the   *)
(* NegaScout player (main1.py).                                            *)
(*                                                                         *)
(* Python objects live in `heap`: a sequence of game objects addressed by  *)
(* their position, so that two names for one object (aliasing) and a copy  *)
(* of it (clone) are different things in the model, as they are in Python. *)
(* A board is a sequence of 64 cells; Python index i is position i + 1.    *)
(***************************************************************************)
EXTENDS Integers, Sequences, FiniteSets, TLC

VARIABLES
    heap,             \* the OthelloGame objects, by reference (1 = the driver's game)
    clones,           \* the clone() calls made by the client: object cloned, object returned
    last,             \* the last call made on a game object, and the object before it
    ops,              \* calls made so far
    pc,               \* where the player's get_move, or the driver's loop, is
    engine,           \* which player runs: "mcts" (main.py) or "negascout" (main1.py)
    iteration_limit,  \* MCTS.iteration_limit
    depth_limit,      \* Negascout.depth_limit
    nodes,            \* the MCTSNode objects of the running search (1 = root_node)
    node,             \* MCTS.search's local `node`
    sim,              \* MCTS.simulate's local `current_state` (a heap reference), 0 outside
    iter,             \* iterations of MCTS.search's for loop executed so far
    sims,             \* per MCTSNode: the playout outcomes backpropagated through it
    ret,              \* what get_move returned
    raised,           \* the exception get_move ended with, "none" if it returned
    nscore            \* the score Negascout.search computed

gameVars == <<heap, clones, last, ops>>
searchVars ==
    <<pc, engine, iteration_limit, depth_limit, nodes, node, sim, iter, sims, ret, raised, nscore>>
vars == <<heap, clones, last, ops, pc, engine, iteration_limit, depth_limit, nodes, node, sim, iter,
          sims, ret, raised, nscore>>

---------------------------------------------------------------------------
(* Bounds of the model *)

MaxOps == 2          \* calls made on game objects after the starting position
MaxObjs == 2         \* game objects alive in the game-level specification
MaxPasses == 3       \* pass_turn is not called once turns_passed reached this
MaxIter == 3         \* largest MCTS iteration_limit
MaxDepth == 3        \* largest Negascout depth_limit
MaxPlies == 1        \* moves and passes made in the NegaScout specification

---------------------------------------------------------------------------
(* Python values *)

None == -1000        \* Python's None (no index of the model comes near it)
Inf == 1000          \* float('inf'); scores lie in -64..64

Negate(x) == 0 - x

\* x - 1 in float arithmetic: an infinity stays what it is
MinusOne(x) == IF x = Inf \/ x = Negate(Inf) THEN x ELSE x - 1

Max(a, b) == IF a >= b THEN a ELSE b

\* list[i] of Python for a list of 64 cells: a negative i counts from the end
Idx(i) == IF i < 0 THEN 64 + i + 1 ELSE i + 1
InRange(i) == i >= -64 /\ i <= 63
Cell(board, i) == board[Idx(i)]

\* the lists of ss joined in order, half by half
RECURSIVE Flatten(_)
Flatten(ss) ==
    IF Len(ss) = 0 THEN <<>>
    ELSE IF Len(ss) = 1 THEN ss[1]
    ELSE Flatten(SubSeq(ss, 1, Len(ss) \div 2)) \o Flatten(SubSeq(ss, (Len(ss) \div 2) + 1, Len(ss)))

\* s[lo] + ... + s[hi], added up half by half
RECURSIVE SumRange(_, _, _)
SumRange(s, lo, hi) ==
    IF lo > hi THEN 0
    ELSE IF lo = hi THEN s[lo]
    ELSE SumRange(s, lo, (lo + hi) \div 2) + SumRange(s, ((lo + hi) \div 2) + 1, hi)

\* sum(list)
SumSeq(s) == SumRange(s, 1, Len(s))

---------------------------------------------------------------------------
(* OthelloGame *)

\* the opening with the two colours exchanged
initialize_board_swapped ==
    [i \in 1..64 |-> IF i - 1 \in {27, 36} THEN 1
                     ELSE IF i - 1 \in {28, 35} THEN -1 ELSE 0]

initialize_board ==
    [i \in 1..64 |-> IF i - 1 \in {27, 36} THEN -1
                     ELSE IF i - 1 \in {28, 35} THEN 1 ELSE 0]

NewGame ==
    [board |-> initialize_board, current_player |-> 1,
     last_move |-> None, turns_passed |-> 0]

Directions ==
    << <<-1, -1>>, <<-1, 0>>, <<-1, 1>>, <<0, -1>>, <<0, 1>>, <<1, -1>>, <<1, 0>>, <<1, 1>> >>

FlipDirections ==
    << <<-1, 0>>, <<1, 0>>, <<0, -1>>, <<0, 1>>, <<-1, -1>>, <<-1, 1>>, <<1, -1>>, <<1, 1>> >>

OnBoard(nx, ny) == 0 <= nx /\ nx < 8 /\ 0 <= ny /\ ny < 8

\* the while loop of can_flip, from (nx, ny) on
RECURSIVE can_flip_walk(_, _, _, _, _, _)
can_flip_walk(g, nx, ny, dx, dy, flipped) ==
    IF ~OnBoard(nx, ny) THEN FALSE
    ELSE LET ni == nx * 8 + ny IN
         IF Cell(g.board, ni) = Negate(g.current_player)
         THEN can_flip_walk(g, nx + dx, ny + dy, dx, dy, TRUE)
         ELSE IF Cell(g.board, ni) = g.current_player THEN flipped
         ELSE FALSE

\* can_flip with `flipped` starting True: a neighbouring own disc counts as a capture
can_flip_flagset(g, x, y, dx, dy) == can_flip_walk(g, x + dx, y + dy, dx, dy, TRUE)

can_flip(g, x, y, dx, dy) == can_flip_walk(g, x + dx, y + dy, dx, dy, FALSE)

\* index is in range here: the subscript of an index out of range raises (see apply_move)
is_valid_move(g, index) ==
    IF Cell(g.board, index) # 0 THEN FALSE
    ELSE LET x == index \div 8
             y == index % 8
         IN \E d \in 1..8 : can_flip(g, x, y, Directions[d][1], Directions[d][2])

get_valid_moves(g) ==
    SelectSeq([i \in 1..64 |-> i - 1], LAMBDA i : is_valid_move(g, i))

\* the walk of flip_discs that keeps what it collected when it meets an empty cell
RECURSIVE flip_walk_openend(_, _, _, _, _, _, _)
flip_walk_openend(board, player, nx, ny, dx, dy, flipped) ==
    IF ~OnBoard(nx, ny) THEN <<>>
    ELSE LET index == nx * 8 + ny IN
         IF Cell(board, index) = 0 THEN flipped
         ELSE IF Cell(board, index) = player THEN flipped
         ELSE flip_walk_openend(board, player, nx + dx, ny + dy, dx, dy,
                                Append(flipped, index))

\* the while loop of flip_discs in one direction, from (nx, ny) on: what it adds to flips
RECURSIVE flip_walk(_, _, _, _, _, _, _)
flip_walk(board, player, nx, ny, dx, dy, flipped) ==
    IF ~OnBoard(nx, ny) THEN <<>>
    ELSE LET index == nx * 8 + ny IN
         IF Cell(board, index) = 0 THEN <<>>
         ELSE IF Cell(board, index) = player THEN flipped
         ELSE flip_walk(board, player, nx + dx, ny + dy, dx, dy, Append(flipped, index))

flip_discs(board, move, player) ==
    LET x == move \div 8
        y == move % 8
    IN Flatten([d \in 1..8 |->
                  flip_walk(board, player, x + FlipDirections[d][1], y + FlipDirections[d][2],
                            FlipDirections[d][1], FlipDirections[d][2], <<>>)])

\* pass_turn that does not count the pass
pass_turn_nocount(g) == [g EXCEPT !.current_player = Negate(g.current_player)]

pass_turn(g) ==
    [g EXCEPT !.turns_passed = g.turns_passed + 1,
              !.current_player = Negate(g.current_player)]

\* the captured discs are taken off the board instead of being turned over
RECURSIVE SetCells_clear(_, _, _)
SetCells_clear(board, flips, player) ==
    IF flips = <<>> THEN board
    ELSE IF Len(flips) = 1 THEN [board EXCEPT ![Idx(flips[1])] = 0]
    ELSE SetCells_clear(SetCells_clear(board, SubSeq(flips, 1, Len(flips) \div 2), player),
                        SubSeq(flips, (Len(flips) \div 2) + 1, Len(flips)), player)

\* for flip in flips: board[flip] = player (the first half of flips, then the rest)
RECURSIVE SetCells(_, _, _)
SetCells(board, flips, player) ==
    IF flips = <<>> THEN board
    ELSE IF Len(flips) = 1 THEN [board EXCEPT ![Idx(flips[1])] = player]
    ELSE SetCells(SetCells(board, SubSeq(flips, 1, Len(flips) \div 2), player),
                  SubSeq(flips, (Len(flips) \div 2) + 1, Len(flips)), player)

\* apply_move that does not record last_move
apply_move_nolast(g, move) ==
    IF move = None THEN [g |-> g, outcome |-> "invalid"]
    ELSE IF ~InRange(move) THEN [g |-> g, outcome |-> "IndexError"]
    ELSE IF is_valid_move(g, move)
    THEN LET placed == [g.board EXCEPT ![Idx(move)] = g.current_player]
             flips == flip_discs(placed, move, g.current_player)
             flipped == SetCells(placed, flips, g.current_player)
         IN [g |-> [board |-> flipped,
                    current_player |-> g.current_player * (-1),
                    last_move |-> g.last_move,
                    turns_passed |-> 0],
             outcome |-> "ok"]
    ELSE [g |-> g, outcome |-> "invalid"]

\* apply_move that turns the captured discs over without placing the new disc
apply_move_noplace(g, move) ==
    IF move = None THEN [g |-> g, outcome |-> "invalid"]
    ELSE IF ~InRange(move) THEN [g |-> g, outcome |-> "IndexError"]
    ELSE IF is_valid_move(g, move)
    THEN LET flips == flip_discs(g.board, move, g.current_player)
             flipped == SetCells(g.board, flips, g.current_player)
         IN [g |-> [board |-> flipped,
                    current_player |-> g.current_player * (-1),
                    last_move |-> move,
                    turns_passed |-> 0],
             outcome |-> "ok"]
    ELSE [g |-> g, outcome |-> "invalid"]

\* apply_move: the game after the call, and how the call ended
apply_move(g, move) ==
    IF move = None THEN [g |-> g, outcome |-> "invalid"]
    ELSE IF ~InRange(move) THEN [g |-> g, outcome |-> "IndexError"]
    ELSE IF is_valid_move(g, move)
    THEN LET placed == [g.board EXCEPT ![Idx(move)] = g.current_player]
             flips == flip_discs(placed, move, g.current_player)
             flipped == SetCells(placed, flips, g.current_player)
         IN [g |-> [board |-> flipped,
                    current_player |-> g.current_player * (-1),
                    last_move |-> move,
                    turns_passed |-> 0],
             outcome |-> "ok"]
    ELSE [g |-> g, outcome |-> "invalid"]

clone(g) ==
    [board |-> g.board, current_player |-> g.current_player,
     last_move |-> None, turns_passed |-> 0]

is_game_over_fullboard(g) ==
    IF \A i \in 1..64 : g.board[i] # 0 THEN get_valid_moves(g) = <<>>
    ELSE FALSE

is_game_over(g) ==
    IF \A i \in 1..64 : g.board[i] # 0 THEN get_valid_moves(g) = <<>>
    ELSE IF g.turns_passed >= 2 THEN FALSE
    ELSE get_valid_moves(g) = <<>>

get_winner(g) ==
    LET score == SumSeq(g.board)
    IN IF score > 0 THEN 1 ELSE IF score < 0 THEN -1 ELSE 0

---------------------------------------------------------------------------
(* Starting positions: each is the opening position followed by a recorded *)
(* game (a legal move of the side to move, or None for a pass of a side    *)
(* with no legal move), so every starting board is one play produces.      *)

\* a nine-move game that leaves the second player without discs
LineWipeout == <<19, 18, 37, 29, 21, 11, 3, 20, 17>>

\* a game that fills the board, the first player passing twice near the end
LineFull ==
    <<26, 20, 37, 34, 18, 46, 12, 10, 17, 16, 33, 44, 2, 21, 52, 60, 43, 50, 53, 19,
      39, 3, 38, 40, 1, 41, 32, 45, 25, 42, 9, 61, 29, 8, 59, 11, 48, 57, 49, 22,
      62, 0, 30, 31, 51, 24, 14, 47, 13, 6, 23, 4, 5, 56, 55, 15, 7, 58, None, 63,
      None, 54>>

\* a game that ends with two empty cells neither player can take
LineStuck ==
    <<44, 45, 37, 43, 51, 53, 52, 29, 46, 39, 62, 54, 21, 30, 38, 47, 42, 13, 55, 49,
      5, 59, 31, 63, 58, 60, 50, 61, 40, 48, 41, 14, 19, 32, 57, 12, 56, 11, 10, 23,
      3, 20, 22, 34, 24, 26, 4, 2, 25, 17, 33, 15, 1, 16, 8, 9, 6, 18>>

\* (a recorded move that is not legal would stop the replay where it stands;
\* the line is replayed half by half, which keeps the nesting shallow)
RECURSIVE Replay(_, _)
Replay(r, line) ==
    IF r.outcome # "ok" \/ line = <<>> THEN r
    ELSE IF Len(line) = 1
    THEN LET n == IF Head(line) = None
                  THEN [g |-> pass_turn(r.g), outcome |-> "ok"]
                  ELSE apply_move(r.g, Head(line))
         IN IF n.outcome = "ok" THEN n ELSE [g |-> r.g, outcome |-> "stopped"]
    ELSE LET half == Len(line) \div 2
             first == Replay(r, SubSeq(line, 1, half))
         IN IF first.outcome = "ok"
            THEN Replay(first, SubSeq(line, half + 1, Len(line)))
            ELSE first

Position(line, n) == Replay([g |-> NewGame, outcome |-> "ok"], SubSeq(line, 1, n)).g

\* the positions the game-level specification starts from
Starts ==
    { NewGame,
      Position(LineWipeout, 8),
      Position(LineFull, 56), Position(LineFull, 57), Position(LineFull, 58),
      Position(LineFull, 61), Position(LineStuck, 57), Position(LineStuck, 58) }

---------------------------------------------------------------------------
(* Objects and references *)

\* new = obj (no clone): a second name for the same object
CloneObj_alias(h, r) == [heap |-> h, ref |-> r]

\* new = obj.clone(): a new object on the heap, and the reference to it
CloneObj(h, r) == [heap |-> Append(h, clone(h[r])), ref |-> Len(h) + 1]

\* obj.apply_move(move) on the object r refers to
ApplyTo(h, r, move) == [h EXCEPT ![r] = apply_move(h[r], move).g]

---------------------------------------------------------------------------
(* The game-level specification: a client calls apply_move, pass_turn and  *)
(* clone on the game objects it holds.                                     *)

\* what a client may hand to apply_move: any cell, indices beyond both ends, None
MoveInputs == {None} \cup (-66..65)

Idle ==
    /\ pc = "idle" /\ engine = "none" /\ iteration_limit = 0 /\ depth_limit = 0
    /\ nodes = <<>> /\ node = 0 /\ sim = 0 /\ iter = 0 /\ sims = <<>>
    /\ ret = None /\ raised = "none" /\ nscore = 0

Init ==
    /\ \E g \in Starts : /\ heap = <<g>>
                         /\ last = [op |-> "init", obj |-> 1, arg |-> None,
                                    outcome |-> "ok", before |-> g]
    /\ clones = <<>>
    /\ ops = 0
    /\ Idle

\* game.apply_move(move)
ApplyMove ==
    \E o \in 1..Len(heap), move \in MoveInputs :
        /\ ops < MaxOps
        /\ LET r == apply_move(heap[o], move)
           IN /\ heap' = [heap EXCEPT ![o] = r.g]
              /\ last' = [op |-> "apply_move", obj |-> o, arg |-> move,
                          outcome |-> r.outcome, before |-> heap[o]]
        /\ ops' = ops + 1
        /\ UNCHANGED clones
        /\ UNCHANGED searchVars

\* game.pass_turn(), called as the drivers call it: the side to move has no legal move
PassTurn ==
    \E o \in 1..Len(heap) :
        /\ ops < MaxOps
        /\ Len(get_valid_moves(heap[o])) = 0
        /\ heap[o].turns_passed < MaxPasses
        /\ heap' = [heap EXCEPT ![o] = pass_turn(heap[o])]
        /\ last' = [op |-> "pass_turn", obj |-> o, arg |-> None,
                    outcome |-> "ok", before |-> heap[o]]
        /\ ops' = ops + 1
        /\ UNCHANGED clones
        /\ UNCHANGED searchVars

\* c = game.clone(): the client holds the object returned next to the one cloned
Clone ==
    \E o \in 1..Len(heap) :
        /\ ops < MaxOps
        /\ Len(heap) < MaxObjs
        /\ LET c == CloneObj(heap, o)
           IN /\ heap' = c.heap
              /\ clones' = Append(clones, [of |-> o, ref |-> c.ref])
        /\ last' = [op |-> "clone", obj |-> o, arg |-> None,
                    outcome |-> "ok", before |-> heap[o]]
        /\ ops' = ops + 1
        /\ UNCHANGED searchVars

\* game = OthelloGame(): a new object in the opening position
Construct ==
    /\ ops < MaxOps
    /\ Len(heap) < MaxObjs
    /\ heap' = Append(heap, NewGame)
    /\ last' = [op |-> "new", obj |-> Len(heap) + 1, arg |-> None,
                outcome |-> "ok", before |-> NewGame]
    /\ ops' = ops + 1
    /\ UNCHANGED clones
    /\ UNCHANGED searchVars

Next == ApplyMove \/ PassTurn \/ Clone \/ Construct

Spec == Init /\ [][Next]_vars

---------------------------------------------------------------------------
(* Negascout (main1.py) *)

evaluate(g) == SumSeq(g.board)

\* the full-window search is never made
NeedsResearch_never(alpha, current_score, beta) == FALSE

\* line 42: the null-window score calls for a full-window search
NeedsResearch(alpha, current_score, beta) == alpha < current_score /\ current_score < beta

\* negascout(node, depth, alpha, beta, color), node.state being the object st of
\* heap h: the score returned, node.best_move after the call, and the heap after it
RECURSIVE negascout(_, _, _, _, _, _)
RECURSIVE negascout_loop(_, _, _, _, _, _, _, _, _, _)

\* the for loop over moves, from moves[i] on, with score and node.best_move so far
negascout_loop(h, st, depth, alpha, beta, color, moves, i, score, best_move) ==
    IF i > Len(moves) THEN [score |-> score, best_move |-> best_move, heap |-> h]
    ELSE LET c == CloneObj(h, st)
             h1 == ApplyTo(c.heap, c.ref, moves[i])
             scout == negascout(h1, c.ref, depth - 1,
                                IF i = 1 THEN Negate(beta) ELSE MinusOne(Negate(alpha)),
                                Negate(alpha), Negate(color))
             s1 == Negate(scout.score)
             again == i > 1 /\ NeedsResearch(alpha, s1, beta)
             full == negascout(scout.heap, c.ref, depth - 1,
                               Negate(beta), Negate(s1), Negate(color))
             current_score == IF again THEN Negate(full.score) ELSE s1
             h2 == IF again THEN full.heap ELSE scout.heap
             score2 == IF current_score > score THEN current_score ELSE score
             best2 == IF current_score > score THEN moves[i] ELSE best_move
             alpha2 == Max(alpha, score2)
         IN IF alpha2 >= beta
            THEN [score |-> score2, best_move |-> best2, heap |-> h2]
            ELSE negascout_loop(h2, st, depth, alpha2, beta, color, moves, i + 1,
                                score2, best2)

negascout(h, st, depth, alpha, beta, color) ==
    IF depth = 0 \/ is_game_over(h[st])
    THEN [score |-> color * evaluate(h[st]), best_move |-> None, heap |-> h]
    ELSE LET moves == get_valid_moves(h[st]) IN
         IF moves = <<>>
         THEN LET r == negascout(h, st, depth - 1, Negate(beta), Negate(alpha),
                                 Negate(color))
              IN [score |-> Negate(r.score), best_move |-> r.best_move, heap |-> r.heap]
         ELSE negascout_loop(h, st, depth, alpha, beta, color, moves, 1,
                             Negate(Inf), None)

\* Negascout(depth).search(root_state), root_state being object st
negascout_search(h, st, depth) == negascout(h, st, depth, Negate(Inf), Inf, 1)

---------------------------------------------------------------------------
(* MCTSNode and MCTS (main.py) *)

\* exploration_weight in tenths: 1.4 during selection, 0 for the final choice
ExplorationWeight == 14

\* MCTSNode(state, parent)
MCTSNode(h, st, parent) ==
    [state |-> st, parent |-> parent, children |-> <<>>, visits |-> 0, wins |-> 0,
     untried_moves |-> get_valid_moves(h[st])]

is_fully_expanded(n) == Len(n.untried_moves) = 0

\* x > y * sqrt(p) for integers x, y and p >= 0
GreaterThanRoot(x, y, p) ==
    IF y >= 0 THEN x > 0 /\ x * x > y * y * p
    ELSE x >= 0 \/ x * x < y * y * p

\* a.get_value(w) > b.get_value(w) for two children a, b of a node with p visits,
\* the weight w in tenths: wins/visits + w * sqrt(p) / (1 + visits), and
\* float('inf') for an unvisited child, compared exactly
ValueGreater(a, b, w, p) ==
    IF a.visits = 0 THEN b.visits # 0
    ELSE IF b.visits = 0 THEN FALSE
    ELSE GreaterThanRoot(
             10 * (a.wins * b.visits - b.wins * a.visits) * (1 + a.visits) * (1 + b.visits),
             w * (a.visits - b.visits) * a.visits * b.visits,
             p)

\* n.best_child(w): max() keeps the first of the children of greatest value; 0 is None
best_child(ns, n, w) ==
    IF ns[n].children = <<>> THEN 0
    ELSE LET ch == ns[n].children
             k == CHOOSE k \in 1..Len(ch) :
                    /\ \A j \in 1..Len(ch) :
                          ~ValueGreater(ns[ch[j]], ns[ch[k]], w, ns[n].visits)
                    /\ \A j \in 1..(k - 1) :
                          ValueGreater(ns[ch[k]], ns[ch[j]], w, ns[n].visits)
         IN ch[k]

\* MCTS.select_node from node n on; 0 when best_child returned None
RECURSIVE select_node(_, _, _)
select_node(h, ns, n) ==
    IF n # 0 /\ ~is_game_over(h[ns[n].state]) /\ is_fully_expanded(ns[n])
    THEN select_node(h, ns, best_child(ns, n, ExplorationWeight))
    ELSE n

\* n.expand(): the heap and the nodes after it, and the node returned
expand(h, ns, n) ==
    IF ns[n].untried_moves = <<>> THEN [heap |-> h, nodes |-> ns, node |-> n]
    ELSE LET um == ns[n].untried_moves
             move == um[Len(um)]
             c == CloneObj(h, ns[n].state)
             h1 == ApplyTo(c.heap, c.ref, move)
             child == Len(ns) + 1
             ns1 == [ns EXCEPT ![n].untried_moves = SubSeq(um, 1, Len(um) - 1),
                               ![n].children = Append(@, child)]
         IN [heap |-> h1, nodes |-> Append(ns1, MCTSNode(h1, c.ref, n)), node |-> child]

\* backpropagate that stops at the node it is called on
backpropagate_noparent(ns, n, result) ==
    [ns EXCEPT ![n].visits = @ + 1, ![n].wins = @ + result]

\* n.backpropagate(result)
RECURSIVE backpropagate(_, _, _)
backpropagate(ns, n, result) ==
    LET ns1 == [ns EXCEPT ![n].visits = @ + 1, ![n].wins = @ + result]
    IN IF ns[n].parent # 0 THEN backpropagate(ns1, ns[n].parent, Negate(result)) ELSE ns1

\* the nodes a backpropagation from n passes through
RECURSIVE Chain(_, _)
Chain(ns, n) == IF n = 0 THEN {} ELSE {n} \cup Chain(ns, ns[n].parent)

---------------------------------------------------------------------------
(* The search specification: a client holding the game (object 1) asks a   *)
(* player for a move, applies the move it gets or passes when it gets      *)
(* None, and lets the random opponent play, as the drivers' loops do.      *)

SearchStarts ==
    { Position(LineFull, 56), Position(LineFull, 58), Position(LineStuck, 55) }

InitSearch ==
    /\ \E g \in SearchStarts : /\ heap = <<g>>
                               /\ last = [op |-> "init", obj |-> 1, arg |-> None,
                                          outcome |-> "ok", before |-> g]
    /\ clones = <<>>
    /\ ops = 0
    /\ Idle

\* the player and its search are dropped
Forget ==
    /\ pc' = "idle" /\ engine' = "none" /\ iteration_limit' = 0 /\ depth_limit' = 0
    /\ nodes' = <<>> /\ node' = 0 /\ sim' = 0 /\ iter' = 0 /\ sims' = <<>>
    /\ ret' = None /\ raised' = "none" /\ nscore' = 0

Called == [op |-> "get_move", obj |-> 1, arg |-> None, outcome |-> "running",
           before |-> heap[1]]

\* MCTSPlayer(iteration_limit).get_move(game) up to the for loop of MCTS.search
MCTSGetMove ==
    /\ pc = "idle"
    /\ \E n \in 0..MaxIter : iteration_limit' = n
    /\ engine' = "mcts"
    /\ last' = Called
    /\ IF get_valid_moves(heap[1]) = <<>>
       THEN /\ pc' = "returned"
            /\ UNCHANGED <<nodes, sims>>
       ELSE /\ pc' = "loop"
            /\ nodes' = <<MCTSNode(heap, 1, 0)>>
            /\ sims' = << <<>> >>
    /\ UNCHANGED <<heap, clones, ops, depth_limit, node, sim, iter, ret, raised, nscore>>

\* one pass of the for loop up to the playout: select_node, expand, and the clone
\* simulate starts from
Iterate ==
    /\ pc = "loop"
    /\ iter < iteration_limit
    /\ LET n0 == select_node(heap, nodes, 1) IN
       IF n0 = 0
       THEN /\ raised' = "AttributeError"
            /\ pc' = "returned"
            /\ UNCHANGED <<heap, nodes, node, sim, sims>>
       ELSE LET e == IF ~is_game_over(heap[nodes[n0].state])
                     THEN expand(heap, nodes, n0)
                     ELSE [heap |-> heap, nodes |-> nodes, node |-> n0]
                c == CloneObj(e.heap, e.nodes[e.node].state)
            IN /\ heap' = c.heap
               /\ sim' = c.ref
               /\ nodes' = e.nodes
               /\ node' = e.node
               /\ sims' = IF Len(e.nodes) > Len(nodes) THEN Append(sims, <<>>) ELSE sims
               /\ pc' = "simulate"
               /\ UNCHANGED raised
    /\ UNCHANGED <<clones, last, ops, engine, iteration_limit, depth_limit, iter, ret, nscore>>

\* one pass of the while loop of simulate
SimStep ==
    /\ pc = "simulate"
    /\ ~is_game_over(heap[sim])
    /\ LET moves == get_valid_moves(heap[sim]) IN
       IF moves = <<>> THEN heap' = heap
       ELSE \E k \in 1..Len(moves) : heap' = ApplyTo(heap, sim, moves[k])
    /\ UNCHANGED <<clones, last, ops>>
    /\ UNCHANGED searchVars

\* simulate returns the winner and node.backpropagate(result) runs; the playout's
\* state is dropped
SimEnd ==
    /\ pc = "simulate"
    /\ is_game_over(heap[sim])
    /\ LET result == get_winner(heap[sim]) IN
       /\ nodes' = backpropagate(nodes, node, result)
       /\ sims' = [k \in 1..Len(sims) |->
                     IF k \in Chain(nodes, node) THEN Append(sims[k], result) ELSE sims[k]]
    /\ heap' = IF sim = Len(heap) /\ \A k \in 1..Len(nodes) : nodes[k].state # sim
               THEN SubSeq(heap, 1, Len(heap) - 1) ELSE heap
    /\ sim' = 0
    /\ iter' = iter + 1
    /\ pc' = "loop"
    /\ UNCHANGED <<clones, last, ops, engine, iteration_limit, depth_limit, node, ret, raised,
                   nscore>>

\* the for loop is over: return root_node.best_child(0).state.last_move
Finish ==
    /\ pc = "loop"
    /\ iter >= iteration_limit
    /\ LET b == best_child(nodes, 1, 0) IN
       IF b = 0
       THEN /\ raised' = "AttributeError"
            /\ ret' = ret
       ELSE /\ ret' = heap[nodes[b].state].last_move
            /\ raised' = raised
    /\ pc' = "returned"
    /\ last' = [last EXCEPT !.outcome = "done"]
    /\ UNCHANGED <<heap, clones, ops, engine, iteration_limit, depth_limit, nodes, node, sim, iter,
                   sims, nscore>>

\* NegascoutPlayer(depth_limit).get_move(game); its nodes are dropped on return
NegascoutGetMove ==
    /\ pc = "idle"
    /\ \E d \in 1..MaxDepth :
          /\ depth_limit' = d
          /\ IF get_valid_moves(heap[1]) = <<>>
             THEN /\ ret' = None
                  /\ nscore' = nscore
                  /\ heap' = heap
             ELSE LET r == negascout_search(heap, 1, d) IN
                  /\ ret' = r.best_move
                  /\ nscore' = r.score
                  /\ heap' = <<r.heap[1]>>
    /\ engine' = "negascout"
    /\ last' = [Called EXCEPT !.outcome = "done"]
    /\ pc' = "returned"
    /\ UNCHANGED <<clones, ops, iteration_limit, nodes, node, sim, iter, sims, raised>>

\* the driver with the move it got: if move in moves: game.apply_move(move)
ApplyReturned ==
    /\ pc = "returned"
    /\ raised = "none"
    /\ ret # None
    /\ LET r == IF \E k \in 1..Len(get_valid_moves(heap[1])) :
                      get_valid_moves(heap[1])[k] = ret
                THEN apply_move(heap[1], ret)
                ELSE [g |-> heap[1], outcome |-> "skipped"]
       IN /\ heap' = <<r.g>>
          /\ last' = [op |-> "apply_move", obj |-> 1, arg |-> ret,
                      outcome |-> r.outcome, before |-> heap[1]]
    /\ ops' = ops + 1
    /\ UNCHANGED clones
    /\ Forget

\* the driver when get_move returned None: game.pass_turn()
PassAfterNone ==
    /\ pc = "returned"
    /\ raised = "none"
    /\ ret = None
    /\ heap[1].turns_passed < MaxPasses
    /\ heap' = <<pass_turn(heap[1])>>
    /\ last' = [op |-> "pass_turn", obj |-> 1, arg |-> None,
                outcome |-> "ok", before |-> heap[1]]
    /\ ops' = ops + 1
    /\ UNCHANGED clones
    /\ Forget

\* the random player (black): random.choice(moves), game.apply_move(move)
RandomMove ==
    /\ pc = "idle"
    /\ heap[1].current_player = 1
    /\ LET moves == get_valid_moves(heap[1]) IN
       \E k \in 1..Len(moves) :
          /\ heap' = <<apply_move(heap[1], moves[k]).g>>
          /\ last' = [op |-> "apply_move", obj |-> 1, arg |-> moves[k],
                      outcome |-> "ok", before |-> heap[1]]
    /\ ops' = ops + 1
    /\ UNCHANGED clones
    /\ UNCHANGED searchVars

NextSearch ==
    \/ MCTSGetMove \/ Iterate \/ SimStep \/ SimEnd \/ Finish
    \/ NegascoutGetMove
    \/ ApplyReturned \/ PassAfterNone \/ RandomMove

SpecSearch == InitSearch /\ [][NextSearch]_vars

---------------------------------------------------------------------------
(* The NegaScout specification: the same client with the NegaScout player  *)
(* alone, from the opening and from positions of the recorded games, for   *)
(* MaxPlies moves and passes.                                              *)

NegascoutStarts ==
    { NewGame, Position(LineWipeout, 7),
      Position(LineFull, 50), Position(LineFull, 54), Position(LineFull, 56),
      Position(LineFull, 58), Position(LineStuck, 52), Position(LineStuck, 54) }

InitNegascout ==
    /\ \E g \in NegascoutStarts : /\ heap = <<g>>
                                  /\ last = [op |-> "init", obj |-> 1, arg |-> None,
                                             outcome |-> "ok", before |-> g]
    /\ clones = <<>>
    /\ ops = 0
    /\ Idle

NextNegascout ==
    \/ NegascoutGetMove
    \/ ops < MaxPlies /\ ApplyReturned
    \/ ops < MaxPlies /\ PassAfterNone
    \/ ops < MaxPlies /\ RandomMove

SpecNegascout == InitNegascout /\ [][NextNegascout]_vars

---------------------------------------------------------------------------
(* The driver of main1.py: the outer loop `while not game.is_game_over()`   *)
(* around the inner loop `while True`, the random player playing the first *)
(* colour and NegascoutPlayer(depth_limit=5) the second.                   *)

DriverDepthLimit == 5

\* games the driver played (None: a pass_turn of the inner loop), the second
\* player's moves being those Negascout.search returns at depth 5:
\* one that fills the board
LineDriverFull ==
    <<26, 20, 37, 34, 19, 18, 11, 2, 13, 12, 10, 44, 51, 4, 17, 9, 0, 8, 16, 29,
      1, 45, 30, 21, 14, 5, 46, 3, 33, 7, 6, 31, 38, 47, 39, 22, 55, 25, 24, 32,
      40, 63, 15, 23, None, 53, 62, 60, 52, 54, 61, 43, 59, 41, 42, 50, 58, 48, 56, 49,
      57, None, None>>

\* one that fills the board after the first player passed once
LineDriverLate ==
    <<44, 29, 21, 45, 19, 18, 17, 20, 46, 9, 37, 11, 2, 3, 0, 1, 4, 43, 50, 13,
      12, 5, 14, 51, 42, 49, 57, 33, 59, 58, 34, 23, 41, 10, 32, 8, 22, 24, 7, 15,
      6, 25, 31, 26, 16, 48, 56, 38, 47, 40, None, 39, 30, 60, 61, 53, 62, 55, 63, 54,
      52, None, None>>

\* one in which both players pass several times before the board is full
LineDriverPasses ==
    <<19, 34, 44, 20, 26, 18, 9, 10, 13, 0, 25, 21, 41, 5, 6, 7, 11, 12, 1, 2,
      22, 14, 15, 23, 8, 16, None, 30, 31, 39, 38, 4, None, 29, 3, 46, 47, 55, 54, 53,
      62, 60, 52, 61, 59, 17, 24, 32, 33, 40, None, 49, 57, 58, None, 56, None, 50, 48, 51,
      42, 63, None, 43, 37, 45, None, None>>

\* one that ends with an empty cell neither player can take
LineDriverStuck ==
    <<26, 20, 45, 34, 29, 18, 12, 13, 14, 4, 25, 6, 33, 15, 11, 10, 2, 9, 0, 8,
      16, 38, 31, 47, 22, 30, None, 52, 54, 32, 59, 42, 51, 40, 43, 17, 24, 1, 48, 3,
      5, 44, 19, 46, 21, 50, 58, 60, 39, 23, 7, 37, 61, 63, 53, 41, 49, 62, 55, 57,
      None, None>>

\* one in which the second player loses its last disc after 21 moves
LineDriverWipeout ==
    <<44, 29, 22, 30, 21, 12, 20, 11, 39, 13, 19, 15, 5, 31, 3, 4, 38, 6, 14, 23,
      7, None, None>>

\* positions of these games at the top of the inner loop
DriverStarts ==
    { Position(LineDriverFull, 56), Position(LineDriverLate, 56),
      Position(LineDriverPasses, 60), Position(LineDriverStuck, 60),
      Position(LineDriverWipeout, 21) }

InitDriver ==
    /\ \E g \in DriverStarts : /\ heap = <<g>>
                               /\ last = [op |-> "init", obj |-> 1, arg |-> None,
                                          outcome |-> "ok", before |-> g]
    /\ clones = <<>>
    /\ ops = 0
    /\ pc = "inner" /\ engine = "negascout" /\ iteration_limit = 0
    /\ depth_limit = DriverDepthLimit
    /\ nodes = <<>> /\ node = 0 /\ sim = 0 /\ iter = 0 /\ sims = <<>>
    /\ ret = None /\ raised = "none" /\ nscore = 0

\* the driver's own variables are `game` (object 1) and its place in the loops
DriverFrame ==
    UNCHANGED <<clones, engine, iteration_limit, depth_limit, nodes, node, sim, iter, sims,
                ret, raised, nscore>>

\* line 192: while not game.is_game_over()
DriverTest ==
    /\ pc = "outer"
    /\ pc' = IF is_game_over(heap[1]) THEN "done" ELSE "inner"
    /\ UNCHANGED <<heap, last, ops>>
    /\ DriverFrame

\* lines 195-196: if game.turns_passed >= 2: break
DriverBreak ==
    /\ pc = "inner"
    /\ heap[1].turns_passed >= 2
    /\ pc' = "outer"
    /\ UNCHANGED <<heap, last, ops>>
    /\ DriverFrame

\* lines 197-201: no legal move: game.pass_turn(); continue
DriverPass ==
    /\ pc = "inner"
    /\ heap[1].turns_passed < 2
    /\ Len(get_valid_moves(heap[1])) = 0
    /\ heap' = <<pass_turn(heap[1])>>
    /\ last' = [op |-> "pass_turn", obj |-> 1, arg |-> None,
                outcome |-> "ok", before |-> heap[1]]
    /\ ops' = ops + 1
    /\ pc' = "inner"
    /\ DriverFrame

\* lines 202-203, 211-213: the random player moves; the inner loop goes on
DriverRandom ==
    /\ pc = "inner"
    /\ heap[1].turns_passed < 2
    /\ heap[1].current_player = 1
    /\ LET moves == get_valid_moves(heap[1]) IN
       \E k \in 1..Len(moves) :
          LET r == apply_move(heap[1], moves[k])
          IN /\ heap' = <<r.g>>
             /\ last' = [op |-> "apply_move", obj |-> 1, arg |-> moves[k],
                         outcome |-> r.outcome, before |-> heap[1]]
    /\ ops' = ops + 1
    /\ pc' = "inner"
    /\ DriverFrame

\* lines 204-215: the AI's turn: get_move, then pass_turn on None, apply_move of a
\* move that is in moves, and nothing otherwise; the inner loop goes on
DriverAI ==
    /\ pc = "inner"
    /\ heap[1].turns_passed < 2
    /\ heap[1].current_player # 1
    /\ LET moves == get_valid_moves(heap[1])
           s == negascout_search(heap, 1, depth_limit)
           g == s.heap[1]
       IN /\ moves # <<>>
          /\ IF s.best_move = None
             THEN /\ heap' = <<pass_turn(g)>>
                  /\ last' = [op |-> "pass_turn", obj |-> 1, arg |-> None,
                              outcome |-> "ok", before |-> heap[1]]
             ELSE IF \E k \in 1..Len(moves) : moves[k] = s.best_move
             THEN LET r == apply_move(g, s.best_move)
                  IN /\ heap' = <<r.g>>
                     /\ last' = [op |-> "apply_move", obj |-> 1, arg |-> s.best_move,
                                 outcome |-> r.outcome, before |-> heap[1]]
             ELSE /\ heap' = <<g>>
                  /\ last' = [op |-> "apply_move", obj |-> 1, arg |-> s.best_move,
                              outcome |-> "skipped", before |-> heap[1]]
    /\ ops' = ops + 1
    /\ pc' = "inner"
    /\ DriverFrame

NextDriver == DriverTest \/ DriverBreak \/ DriverPass \/ DriverRandom \/ DriverAI

\* the inner loop is at a move: the player to move has one (lines 195-198)
MoveDue ==
    /\ pc = "inner"
    /\ heap[1].turns_passed < 2
    /\ get_valid_moves(heap[1]) # <<>>

\* the driver is a sequential program that keeps running: a loop test, a break or a
\* pass that can be made is made, and so is a player's move, for which weak
\* fairness is written with MoveDue, the condition under which it is enabled
SpecDriver ==
    /\ InitDriver /\ [][NextDriver]_vars
    /\ WF_vars(DriverTest) /\ WF_vars(DriverBreak) /\ WF_vars(DriverPass)
    /\ ([]<>(~MoveDue) \/ []<><<DriverRandom \/ DriverAI>>_vars)

---------------------------------------------------------------------------
(* Properties of the rules engine, checked under Spec *)

Objs == 1..Len(heap)

Count(board, p) == Cardinality({i \in 1..64 : board[i] = p})

BoardFull(g) == \A i \in 1..64 : g.board[i] # 0

\* player p has no legal move on the cells of g
Stuck(g, p) == get_valid_moves([g EXCEPT !.current_player = p]) = <<>>

BothStuck(g) == Stuck(g, g.current_player) /\ Stuck(g, Negate(g.current_player))

\* C1: is_game_over() is true if and only if the board is full or neither player
\* has a legal move on the current cells, whatever turns_passed is.
C1_GameOverIffFullOrBothStuck ==
    \A o \in Objs : is_game_over(heap[o]) <=> (BoardFull(heap[o]) \/ BothStuck(heap[o]))

\* C2: on a board that is not full, where the side to move has no legal move
\* and the opponent has one, is_game_over() is false.
C2_PassPositionNotOver ==
    \A o \in Objs :
        (/\ ~BoardFull(heap[o])
         /\ Stuck(heap[o], heap[o].current_player)
         /\ ~Stuck(heap[o], Negate(heap[o].current_player)))
        => ~is_game_over(heap[o])

\* the invalid moves of the claim: no index, an index outside 0..63, an occupied
\* cell, or no capture in any direction
InvalidMove(g, move) ==
    \/ move = None
    \/ move < 0
    \/ move >= 64
    \/ g.board[move + 1] # 0
    \/ \A d \in 1..8 :
           ~can_flip(g, move \div 8, move % 8, Directions[d][1], Directions[d][2])

\* C6: apply_move with an invalid move is reported as a failure (a False return
\* or an exception, never a successful move) and leaves the board, the side to
\* move, last_move and turns_passed as they were.
C6_InvalidMoveRejected ==
    (last.op = "apply_move" /\ InvalidMove(last.before, last.arg))
    => (last.outcome # "ok" /\ heap[last.obj] = last.before)

\* C7: for every index in 0..63, is_valid_move(index) holds if and only if
\* apply_move(index) raises the mover's disc count by at least 2, and can_flip
\* and flip_discs agree in each of the 8 directions.
C7_ValidIffCaptures ==
    (last.op = "apply_move" /\ last.arg \in 0..63)
    => LET g == last.before
           p == g.current_player
           x == last.arg \div 8
           y == last.arg % 8
           placed == [g.board EXCEPT ![last.arg + 1] = p]
       IN /\ is_valid_move(g, last.arg)
                <=> (Count(heap[last.obj].board, p) - Count(g.board, p) >= 2)
          /\ \A d \in 1..8 :
                can_flip(g, x, y, Directions[d][1], Directions[d][2])
                    <=> (flip_walk(placed, p, x + Directions[d][1], y + Directions[d][2],
                                   Directions[d][1], Directions[d][2], <<>>) # <<>>)

\* a move that captured in two directions at once has been applied
C7_Witness ==
    /\ last.op = "apply_move" /\ last.arg \in 0..63 /\ last.outcome = "ok"
    /\ Count(heap[last.obj].board, last.before.current_player)
           - Count(last.before.board, last.before.current_player) >= 3
    /\ Cardinality({d \in 1..8 :
           can_flip(last.before, last.arg \div 8, last.arg % 8,
                    Directions[d][1], Directions[d][2])}) >= 2

\* the object the last call was made on, as it is now
Now == heap[last.obj]

Occupied(board) == Cardinality({i \in 1..64 : board[i] # 0})

\* a call that went through to the end on the object last.obj
Moved == last.op = "apply_move" /\ last.outcome = "ok" /\ last.arg \in 0..63

\* C11: for c = s.clone(), an apply_move or pass_turn on c leaves the board, the
\* side to move and last_move of s as they were, and one on s leaves c as it was;
\* step by step, so for any sequence of them.
C11_CloneIndependent ==
    [][\A k \in 1..Len(clones) :
          LET s == clones[k].of
              c == clones[k].ref
          IN (last'.op \in {"apply_move", "pass_turn"} /\ last' # last)
             => /\ last'.obj = c
                     => /\ heap'[s].board = heap[s].board
                        /\ heap'[s].current_player = heap[s].current_player
                        /\ heap'[s].last_move = heap[s].last_move
                /\ last'.obj = s => heap'[c] = heap[c]]_vars

\* a move was played on a clone, whose board now differs from the original's
C11_Witness ==
    /\ Moved
    /\ \E k \in 1..Len(clones) :
           /\ clones[k].ref = last.obj
           /\ heap[clones[k].of].board = last.before.board
           /\ heap[clones[k].of].board # Now.board

\* C12: pass_turn switches the side to move, adds exactly 1 to turns_passed and
\* leaves every cell and last_move as they were.
C12_PassTurnFrame ==
    last.op = "pass_turn"
    => /\ Now.current_player = Negate(last.before.current_player)
       /\ Now.turns_passed = last.before.turns_passed + 1
       /\ Now.board = last.before.board
       /\ Now.last_move = last.before.last_move

\* a second pass in a row was made in a game that has a last move
C12_Witness ==
    /\ last.op = "pass_turn"
    /\ Now.turns_passed = 2
    /\ Now.last_move # None

\* C13: every cell is empty or holds one of the two markers, and a call of
\* apply_move or pass_turn empties no occupied cell and does not lower the number
\* of occupied cells.
C13_OccupiedStaysOccupied ==
    /\ \A o \in Objs : \A i \in 1..64 : heap[o].board[i] \in {-1, 0, 1}
    /\ last.op \in {"apply_move", "pass_turn"}
       => /\ \A i \in 1..64 : last.before.board[i] # 0 => Now.board[i] # 0
          /\ Occupied(Now.board) >= Occupied(last.before.board)

\* a move that turned over at least two discs was played
C13_Witness ==
    /\ Moved
    /\ Count(Now.board, last.before.current_player)
           >= Count(last.before.board, last.before.current_player) + 3
    /\ Occupied(Now.board) > Occupied(last.before.board)

\* the discs a move turned over: the opponent's cells that became the mover's
Turned(before, after) ==
    {i \in 1..64 : /\ before.board[i] = Negate(before.current_player)
                   /\ after.board[i] = before.current_player}

\* C14 as stated: after a valid apply_move that turns over f discs the board has
\* 1 + f more occupied cells than before.
C14_OccupiedGrowsByOnePlusFlips ==
    Moved => Occupied(Now.board)
                 = Occupied(last.before.board) + 1 + Cardinality(Turned(last.before, Now))

\* C14 amended: after a valid apply_move that turns over f discs the board has
\* exactly 1 more occupied cell than before; the mover has 1 + f more discs and
\* the opponent f fewer, f being the length of the list flip_discs returned.
C14_OccupiedGrowsByOne ==
    Moved
    => LET p == last.before.current_player
           placed == [last.before.board EXCEPT ![last.arg + 1] = p]
           f == Len(flip_discs(placed, last.arg, p))
       IN /\ Occupied(Now.board) = Occupied(last.before.board) + 1
          /\ Count(Now.board, p) = Count(last.before.board, p) + 1 + f
          /\ Count(Now.board, Negate(p)) = Count(last.before.board, Negate(p)) - f
          /\ f = Cardinality(Turned(last.before, Now))

\* a move that turned over discs in two directions was played
C14_Witness ==
    /\ Moved
    /\ Cardinality(Turned(last.before, Now)) >= 2
    /\ Cardinality({d \in 1..8 :
           can_flip(last.before, last.arg \div 8, last.arg % 8,
                    Directions[d][1], Directions[d][2])}) >= 2
    /\ Occupied(Now.board) = Occupied(last.before.board) + 1

\* C15: a freshly constructed game has 4 discs, 2 a side, cells 28 and 35 for the
\* side to move and 27 and 36 for the other, no last move and no pass counted; its
\* legal moves are 19, 26, 37, 44 in this order, and each turns over one disc.
C15_OpeningPosition ==
    last.op = "new"
    => LET g == Now
           p == g.current_player
       IN /\ p = 1
          /\ Occupied(g.board) = 4
          /\ {i \in 1..64 : g.board[i] = p} = {28 + 1, 35 + 1}
          /\ {i \in 1..64 : g.board[i] = Negate(p)} = {27 + 1, 36 + 1}
          /\ g.last_move = None
          /\ g.turns_passed = 0
          /\ get_valid_moves(g) = <<19, 26, 37, 44>>
          /\ \A k \in 1..Len(get_valid_moves(g)) :
                LET r == apply_move(g, get_valid_moves(g)[k])
                IN /\ r.outcome = "ok"
                   /\ Cardinality(Turned(g, r.g)) = 1
                   /\ r.g.current_player = Negate(p)

\* a second game was constructed next to one in play
C15_Witness ==
    /\ last.op = "new"
    /\ last.obj = 2
    /\ heap[1] # Now
    /\ Len(get_valid_moves(Now)) = 4

\* cell i lies on a straight line from index, in one of the 8 directions, between
\* index and a disc of p, with only discs of the other player from index to that disc
Bracketed(board, index, i, p) ==
    \E d \in 1..8, k \in 1..6, m \in 2..7 :
        LET x == index \div 8
            y == index % 8
            dx == Directions[d][1]
            dy == Directions[d][2]
        IN /\ k < m
           /\ OnBoard(x + m * dx, y + m * dy)
           /\ i = (x + k * dx) * 8 + (y + k * dy)
           /\ board[(x + m * dx) * 8 + (y + m * dy) + 1] = p
           /\ \A j \in 1..(m - 1) :
                 board[(x + j * dx) * 8 + (y + j * dy) + 1] = Negate(p)

\* C16: a valid apply_move(index) by p sets cell index to p, turns to p exactly the
\* opponent discs bracketed between index and another disc of p, leaves every
\* other cell alone, sets last_move to index, gives the move to the opponent and
\* sets turns_passed to 0.
C16_ApplyMoveEffect ==
    Moved
    => LET g == last.before
           p == g.current_player
       IN /\ \A i \in 0..63 :
                Now.board[i + 1] = IF i = last.arg \/ Bracketed(g.board, last.arg, i, p)
                                   THEN p ELSE g.board[i + 1]
          /\ Now.last_move = last.arg
          /\ Now.current_player = Negate(p)
          /\ Now.turns_passed = 0

\* a move was played after a pass, next to a line of opponent discs that ends on
\* an empty cell or the edge and so was not turned over
C16_Witness ==
    /\ Moved
    /\ last.before.turns_passed > 0
    /\ \E i \in 1..64 : Now.board[i] = last.before.current_player
                         /\ last.before.board[i] = Negate(last.before.current_player)
    /\ \E d \in 1..8 :
          LET nx == (last.arg \div 8) + Directions[d][1]
              ny == (last.arg % 8) + Directions[d][2]
          IN /\ OnBoard(nx, ny)
             /\ Now.board[nx * 8 + ny + 1] = Negate(last.before.current_player)

\* C20: clone() returns a full copy: the same cells, side to move, last_move and
\* turns_passed, hence the same get_valid_moves() and is_game_over().
C20_CloneIsFullCopy ==
    (last.op = "clone" /\ clones # <<>>)
    => LET c == heap[clones[Len(clones)].ref]
       IN /\ c.board = last.before.board
          /\ c.current_player = last.before.current_player
          /\ c.last_move = last.before.last_move
          /\ c.turns_passed = last.before.turns_passed
          /\ get_valid_moves(c) = get_valid_moves(last.before)
          /\ is_game_over(c) = is_game_over(last.before)

---------------------------------------------------------------------------
(* Properties of the two players, checked under SpecSearch *)

Returned == pc = "returned"

\* the legal moves of the game get_move was called on
RootMoves == get_valid_moves(last.before)

Member(x, seq) == \E k \in 1..Len(seq) : seq[k] = x

\* exhaustive negamax: no window, no pruning; the terminal test, the evaluator and
\* the move order of negascout; the first move of strictly greatest score is kept
RECURSIVE negamax(_, _, _)
RECURSIVE negamax_loop(_, _, _, _, _, _, _)

negamax_loop(g, depth, color, moves, i, score, best_move) ==
    IF i > Len(moves) THEN [score |-> score, best_move |-> best_move]
    ELSE LET s == Negate(negamax(apply_move(clone(g), moves[i]).g, depth - 1,
                                 Negate(color)).score)
         IN IF s > score
            THEN negamax_loop(g, depth, color, moves, i + 1, s, moves[i])
            ELSE negamax_loop(g, depth, color, moves, i + 1, score, best_move)

negamax(g, depth, color) ==
    IF depth = 0 \/ is_game_over(g)
    THEN [score |-> color * evaluate(g), best_move |-> None]
    ELSE LET moves == get_valid_moves(g) IN
         IF moves = <<>>
         THEN [score |-> Negate(negamax(g, depth - 1, Negate(color)).score),
               best_move |-> None]
         ELSE negamax_loop(g, depth, color, moves, 1, Negate(Inf), None)

\* C3: for a game with a legal move and a depth limit of at least 1, Negascout.search
\* returns the move, and negascout(root, depth_limit, -inf, +inf, 1) the score, of
\* the exhaustive negamax.
C3_NegascoutEqualsNegamax ==
    (Returned /\ engine = "negascout" /\ RootMoves # <<>>)
    => LET exhaustive == negamax(last.before, depth_limit, 1)
       IN /\ ret = exhaustive.best_move
          /\ nscore = exhaustive.score

\* a search two plies deep over several moves returned a move that is not the first
C3_Witness ==
    /\ Returned /\ engine = "negascout" /\ depth_limit >= 2
    /\ Len(RootMoves) >= 2
    /\ ret # RootMoves[1]
    /\ ret = negamax(last.before, depth_limit, 1).best_move

\* the discs of player p minus the discs of the other player, after move m in game g
DiscLead(g, m, p) == p * SumSeq(apply_move(clone(g), m).g.board)

\* C17: with depth_limit 1, for a game with a legal move and either player to move,
\* Negascout.search returns a legal move after which the mover's discs minus the
\* opponent's discs is the greatest any legal move gives.
C17_DepthOnePicksBestForMover ==
    (Returned /\ engine = "negascout" /\ depth_limit = 1 /\ RootMoves # <<>>)
    => /\ Member(ret, RootMoves)
       /\ \A k \in 1..Len(RootMoves) :
             DiscLead(last.before, ret, last.before.current_player)
                 >= DiscLead(last.before, RootMoves[k], last.before.current_player)

RECURSIVE SumVisits(_, _)
SumVisits(ns, ch) == IF ch = <<>> THEN 0 ELSE ns[Head(ch)].visits + SumVisits(ns, Tail(ch))

\* C4: after N iterations of MCTS.search from a root with a legal move, the visits
\* of the root's children sum to N, and so do the visits of the root.
C4_ChildVisitsSumToIterations ==
    (engine = "mcts" /\ pc \in {"loop", "returned"} /\ nodes # <<>>)
    => /\ SumVisits(nodes, nodes[1].children) = iter
       /\ nodes[1].visits = iter

\* a search of at least two iterations over at least two children has returned
C4_Witness ==
    /\ engine = "mcts" /\ Returned /\ nodes # <<>>
    /\ iter = iteration_limit /\ iter >= 2
    /\ Len(nodes[1].children) >= 2
    /\ SumVisits(nodes, nodes[1].children) = iter

\* C5: while a search runs and after it returned, the game handed to get_move has
\* the cells, side to move, last_move and turns_passed it had at the call.
C5_SearchLeavesGameAlone ==
    (pc \in {"loop", "simulate", "returned"}) => heap[1] = last.before

\* an MCTS search that applied moves in its tree and its playouts has returned
C5_Witness ==
    /\ Returned /\ engine = "mcts" /\ ret # None
    /\ Len(nodes) >= 3
    /\ \E k \in 2..Len(heap) : heap[k].board # heap[1].board
    /\ heap[1] = last.before

\* C8: with iteration_limit >= 1 (MCTS) or depth_limit >= 1 (NegaScout), get_move
\* returns None exactly when the game has no legal move, and a legal move otherwise.
C8_GetMoveReturnsLegalMoveOrNone ==
    (Returned /\ (engine = "mcts" => iteration_limit >= 1))
    => /\ raised = "none"
       /\ (ret = None) <=> (RootMoves = <<>>)
       /\ ret # None => Member(ret, RootMoves)

\* an MCTS search returned a legal move of a game with several legal moves
C8_Witness ==
    /\ Returned /\ engine = "mcts" /\ iteration_limit >= 1
    /\ Len(RootMoves) >= 2
    /\ Member(ret, RootMoves)

\* C9: MCTS.search with iteration_limit = 0 on a game with legal moves reports a
\* search-exhausted failure; it does not dereference the absent best child.
C9_ZeroIterationsReported ==
    (Returned /\ engine = "mcts" /\ iteration_limit = 0 /\ RootMoves # <<>>)
    => raised = "SearchExhaustedError"

\* the player who made the move leading into node n
MoverInto(n) == heap[nodes[nodes[n].parent].state].current_player

\* a playout won by `winner` (0: a draw), as player p sees it
OutcomeFor(p, winner) == IF winner = p THEN 1 ELSE IF winner = Negate(p) THEN -1 ELSE 0

RECURSIVE SumOutcomes(_, _)
SumOutcomes(p, ws) ==
    IF ws = <<>> THEN 0 ELSE OutcomeFor(p, Head(ws)) + SumOutcomes(p, Tail(ws))

\* C10: for every node but the root, wins is the sum over the playouts
\* backpropagated through it of their outcome for the player who moved into it.
C10_WinsFromMoversPerspective ==
    (engine = "mcts" /\ pc \in {"loop", "returned"})
    => \A n \in 2..Len(nodes) : nodes[n].wins = SumOutcomes(MoverInto(n), sims[n])

\* C19: every playout of MCTS.simulate terminates within as many applied moves as
\* the state it starts from has empty cells: a playout state that is not game
\* over always has a valid move (the loop never spins without moving), and each
\* pass of the loop that goes on fills exactly one more cell of the playout's
\* board, so the number of empty cells bounds the number of passes.
C19_PlayoutTerminates ==
    /\ [](pc = "simulate"
            => (is_game_over(heap[sim]) \/ get_valid_moves(heap[sim]) # <<>>))
    /\ [][(pc = "simulate" /\ pc' = "simulate")
            => /\ sim' = sim
               /\ Occupied(heap'[sim].board) = Occupied(heap[sim].board) + 1
               /\ Occupied(heap'[sim].board) <= 64]_vars

\* a playout that applied at least two moves and ended with empty cells left
C19_Witness ==
    /\ pc = "simulate"
    /\ is_game_over(heap[sim])
    /\ Occupied(heap[sim].board) >= Occupied(heap[nodes[node].state].board) + 2
    /\ Occupied(heap[sim].board) < 64

---------------------------------------------------------------------------
(* Properties of the driver of main1.py, checked under SpecDriver *)

\* C18: every game the driver runs ends, the outer loop being left, also when both
\* players passed in succession with empty cells left; and turns_passed never
\* exceeds 2 on the way.
C18_DriverTerminates ==
    /\ <>(pc = "done")
    /\ [](heap[1].turns_passed <= 2)

=============================================================================
